---------------------------- MODULE Spec2Model ----------------------------
(***************************************************************************)
(* A model of src/models.py: the three losses built on a closest-rotation  *)
(* solve (procrustes_loss, deformation_loss, energy_loss), the three       *)
(* compute_loss / process_batch variants, and BaseModel.train_epoch.       *)
(*                                                                         *)
(* Numbers.  Tensor scalars are exact rationals <<n, d>> with d > 0; the   *)
(* pair <<0, 0>> is NaN (what torch gives for the mean of an empty tensor  *)
(* and for 0/0).  Square roots are rounded down to a hundredth.            *)
(*                                                                         *)
(* Matrices are 3 x 3 tuples of rows.  The singular value decomposition is *)
(* modelled as a relation: every pair (U, V) of signed permutation         *)
(* matrices with U diag(s) V^T = M, s the singular values in descending    *)
(* order, is a decomposition th.svd may return.  The inputs are therefore  *)
(* matrices with at most one nonzero entry in each row and column.         *)
(***************************************************************************)
EXTENDS Integers, Sequences, FiniteSets

VARIABLES
    rot_pc,     \* "input" before the loss function runs, "done" after
    rot_in,     \* the arguments the loss function is called with
    rot_R,      \* the rotations it solved for, one per matrix (or one per point set)
    rot_out     \* the value it returned

rotVars == <<rot_pc, rot_in, rot_R, rot_out>>

VARIABLES
    loss_pc,    \* "input" before process_batch runs, "done" after
    loss_in,    \* the model class, the batch tuple and the network's outputs
    loss_out    \* what process_batch did: raised, or the loss and its terms

lossVars == <<loss_pc, loss_in, loss_out>>

VARIABLES
    pc,             \* where train_epoch stands; "idle" between calls
    variant,        \* the model class: "surface", "full-head" or "simulator"
    dataset,        \* the dataset object: parallel arrays of samples
    self,           \* the module: its parameters, their gradients, its training flag
    batch_size,     \* train_epoch's argument
    total_loss,     \* train_epoch's locals
    total_samples,
    num_batches,
    batch_inx,
    batch,
    loss,
    result,         \* what the last train_epoch returned
    prepared,       \* history: the calls of prepare_for_epoch in this epoch
    trace,          \* history: the steps of this epoch's batches, in order
    log,            \* history: the slice and the batch of each iteration
    samples_seen,   \* history: the samples in the batches accumulated so far
    weighted_loss   \* history: the sum of their losses, each times its samples

trainVars ==
    <<pc, variant, dataset, self, batch_size, total_loss, total_samples, num_batches,
      batch_inx, batch, loss, result, prepared, trace, log, samples_seen,
      weighted_loss>>

vars == <<rotVars, lossVars, trainVars>>

\* no loss function is called directly
RotIdle ==
    /\ rot_pc = "idle"
    /\ rot_in = <<>>
    /\ rot_R = <<>>
    /\ rot_out = <<0, 0>>

\* no training is under way
TrainIdle ==
    /\ pc = "off"
    /\ variant = "surface"
    /\ dataset = <<>>
    /\ self = <<>>
    /\ batch_size = 1
    /\ total_loss = <<0, 1>>
    /\ total_samples = 0
    /\ num_batches = 0
    /\ batch_inx = 0
    /\ batch = <<>>
    /\ loss = <<0, 1>>
    /\ result = <<0, 1>>
    /\ prepared = 0
    /\ trace = <<>>
    /\ log = <<>>
    /\ samples_seen = 0
    /\ weighted_loss = <<0, 1>>

-----------------------------------------------------------------------------
(* Exact arithmetic on tensor scalars *)

Abs(x) == IF x < 0 THEN -x ELSE x

Sign(x) == IF x > 0 THEN 1 ELSE IF x < 0 THEN -1 ELSE 0

RECURSIVE GCD(_, _)
GCD(a, b) == IF b = 0 THEN a ELSE GCD(b, a % b)

NaN == <<0, 0>>

IsNaN(a) == a[2] = 0

Rat(n, d) ==
    IF d = 0 THEN NaN
    ELSE LET g == GCD(Abs(n), Abs(d))
             s == Sign(d)
         IN  <<s * Sign(n) * (Abs(n) \div g), Abs(d) \div g>>

RInt(n) == <<n, 1>>

RAdd(a, b) ==
    IF IsNaN(a) \/ IsNaN(b) THEN NaN
    ELSE LET g == GCD(a[2], b[2])
         IN  Rat(a[1] * (b[2] \div g) + b[1] * (a[2] \div g), a[2] * (b[2] \div g))

RSub(a, b) ==
    IF IsNaN(a) \/ IsNaN(b) THEN NaN
    ELSE LET g == GCD(a[2], b[2])
         IN  Rat(a[1] * (b[2] \div g) - b[1] * (a[2] \div g), a[2] * (b[2] \div g))

RMul(a, b) ==
    IF IsNaN(a) \/ IsNaN(b) THEN NaN
    ELSE Rat(a[1] * b[1], a[2] * b[2])

RDiv(a, b) ==
    IF IsNaN(a) \/ IsNaN(b) \/ b[1] = 0 THEN NaN
    ELSE Rat(a[1] * b[2], a[2] * b[1])

\* the integer square root, by bisection: lo * lo <= x < hi * hi throughout
RECURSIVE ISqrtIn(_, _, _)
ISqrtIn(x, lo, hi) ==
    IF hi - lo <= 1 THEN lo
    ELSE LET mid == (lo + hi) \div 2
         IN  IF mid * mid <= x THEN ISqrtIn(x, mid, hi) ELSE ISqrtIn(x, lo, mid)

ISqrt(x) == ISqrtIn(x, 0, IF x < 46340 THEN x + 1 ELSE 46341)

RSqrt(a) ==
    IF IsNaN(a) \/ a[1] < 0 THEN NaN
    ELSE Rat(ISqrt((a[1] * 100 * 100) \div a[2]), 100)

RECURSIVE RSum(_)
RSum(s) == IF s = <<>> THEN RInt(0) ELSE RAdd(Head(s), RSum(Tail(s)))

\* tensor.mean(): the sum over the elements divided by their number; NaN when
\* there are none
RMean(s) == RDiv(RSum(s), RInt(Len(s)))

-----------------------------------------------------------------------------
(* 3 x 3 integer matrices *)

Idx == 1 .. 3

Eye == [i \in Idx |-> [j \in Idx |-> IF i = j THEN 1 ELSE 0]]

MatMul(A, B) ==
    [i \in Idx |-> [j \in Idx |->
        A[i][1] * B[1][j] + A[i][2] * B[2][j] + A[i][3] * B[3][j]]]

MatSub(A, B) == [i \in Idx |-> [j \in Idx |-> A[i][j] - B[i][j]]]

Transpose(A) == [i \in Idx |-> [j \in Idx |-> A[j][i]]]

Det(A) ==
      A[1][1] * (A[2][2] * A[3][3] - A[2][3] * A[3][2])
    - A[1][2] * (A[2][1] * A[3][3] - A[2][3] * A[3][1])
    + A[1][3] * (A[2][1] * A[3][2] - A[2][2] * A[3][1])

Diag(s) == [i \in Idx |-> [j \in Idx |-> IF i = j THEN s[i] ELSE 0]]

\* the square of th.linalg.matrix_norm (the Frobenius norm)
FrobSq(A) ==
      A[1][1] * A[1][1] + A[1][2] * A[1][2] + A[1][3] * A[1][3]
    + A[2][1] * A[2][1] + A[2][2] * A[2][2] + A[2][3] * A[2][3]
    + A[3][1] * A[3][1] + A[3][2] * A[3][2] + A[3][3] * A[3][3]

MatrixNorm(A) == RSqrt(RInt(FrobSq(A)))

-----------------------------------------------------------------------------
(* th.svd on matrices with at most one nonzero entry per row and column *)

Perms3 == {p \in [Idx -> Idx] : \A i, j \in Idx : p[i] = p[j] => i = j}

Signs3 == [Idx -> {-1, 1}]

\* the orthogonal matrix whose column j is sg[j] * e_(p[j])
SignedPerm(p, sg) == [i \in Idx |-> [j \in Idx |-> IF p[j] = i THEN sg[j] ELSE 0]]

SignedPerms == {SignedPerm(p, sg) : p \in Perms3, sg \in Signs3}

RowAbs(M) == [i \in Idx |-> Abs(M[i][1]) + Abs(M[i][2]) + Abs(M[i][3])]

\* the singular values, in descending order as th.svd returns them
SingularValues(M) ==
    LET r == RowAbs(M)
        hi == CHOOSE i \in Idx : \A j \in Idx : r[i] >= r[j]
        lo == CHOOSE i \in Idx \ {hi} : \A j \in Idx \ {hi} : r[i] <= r[j]
        mid == CHOOSE i \in Idx \ {hi, lo} : TRUE
    IN  <<r[hi], r[mid], r[lo]>>

\* every <<U, V>> with M = U diag(s) V^T.  With column k of U being
\* sg[k] e_(p[k]) and column k of V being tg[k] e_(q[k]), U diag(s) V^T has
\* s[k] sg[k] tg[k] at (p[k], q[k]) and zero elsewhere.
SVD(M) ==
    LET s == SingularValues(M)
        fits == {x \in Perms3 \X Signs3 \X Perms3 \X Signs3 :
                    /\ \A k \in Idx : M[x[1][k]][x[3][k]] = s[k] * x[2][k] * x[4][k]
                    /\ \A i, j \in Idx :
                          M[i][j] # 0 => \E k \in Idx : x[1][k] = i /\ x[3][k] = j}
    IN  {<<SignedPerm(x[1], x[2]), SignedPerm(x[3], x[4])>> : x \in fits}

-----------------------------------------------------------------------------
(* The closest-rotation solve shared by the three losses *)

\* a Z left at the identity: the orientation is never fixed
OrientationFixOmitted(U, V) == Eye

\* Z = th.eye(3); Z[-1, -1] *= th.sign(th.det(U @ V.T))
OrientationFix(U, V) ==
    [Eye EXCEPT ![3][3] = Eye[3][3] * Sign(Det(MatMul(U, Transpose(V))))]

\* R = U.bmm(Z.bmm(V.permute(0, 2, 1))), for every decomposition of M
SolveBatchedRotations(M) ==
    {MatMul(uv[1], MatMul(OrientationFix(uv[1], uv[2]), Transpose(uv[2]))) :
        uv \in SVD(M)}

\* R = V.mm(Z.mm(U.T)), for every decomposition of K
SolveProcrustesRotations(K) ==
    {MatMul(uv[2], MatMul(OrientationFix(uv[1], uv[2]), Transpose(uv[1]))) :
        uv \in SVD(K)}

Zero3 == Diag(<<0, 0, 0>>)

\* the Jacobians: the identity, a uniform scale, a reflection, a singular
\* matrix, the zero matrix, a reflection with tied singular values, a
\* rotation by a quarter turn, and a scaled swap of two axes (det < 0)
Jacobians ==
    { Eye, Diag(<<2, 2, 2>>), Diag(<<1, 2, -1>>), Diag(<<2, 1, 0>>), Zero3,
      Diag(<<-1, -1, -1>>),
      <<<<0, -1, 0>>, <<1, 0, 0>>, <<0, 0, 1>>>>,
      <<<<0, 2, 0>>, <<1, 0, 0>>, <<0, 0, 1>>>> }

\* the actuations: none, a uniform scale, a stretch along one axis
Actuations == { Eye, Diag(<<2, 2, 2>>), Diag(<<2, 1, 1>>) }

\* The solves are tabulated once for the matrices the bounded inputs lead
\* to; a lookup gives what the solve gives, and any other matrix is solved
\* in place.
TabulatedMatrices ==
         Jacobians
    \cup {MatMul(j, a) : j \in Jacobians, a \in Actuations}
    \cup {Diag(<<k, 0, 0>>) : k \in -64 .. 64}

BatchedTable == [M \in TabulatedMatrices |-> SolveBatchedRotations(M)]

ProcrustesTable == [K \in TabulatedMatrices |-> SolveProcrustesRotations(K)]

BatchedRotations(M) ==
    IF M \in TabulatedMatrices THEN BatchedTable[M] ELSE SolveBatchedRotations(M)

ProcrustesRotations(K) ==
    IF K \in TabulatedMatrices THEN ProcrustesTable[K] ELSE SolveProcrustesRotations(K)

\* the sequences that pick one element of choices[i] at every i
RECURSIVE Picks(_)
Picks(choices) ==
    IF choices = <<>> THEN {<<>>}
    ELSE {<<h>> \o t : h \in Head(choices), t \in Picks(Tail(choices))}

\* the rotations deformation_loss solves for, one per matrix of the batch
DeformationRotations(jacobian) ==
    Picks([i \in 1 .. Len(jacobian) |-> BatchedRotations(jacobian[i])])

\* what deformation_loss returns once the rotations R are solved
DeformationResidual(jacobian, R) ==
    RMean([i \in 1 .. Len(jacobian) |-> MatrixNorm(MatSub(jacobian[i], R[i]))])

\* the values deformation_loss(jacobian) may return: jacobian is the batch, a
\* sequence of matrices
deformation_loss(jacobian) ==
    {DeformationResidual(jacobian, R) : R \in DeformationRotations(jacobian)}

\* the rotations energy_loss solves for: those of jacobian[i] . actuations[i]
EnergyRotations(jacobian, actuations) ==
    Picks([i \in 1 .. Len(jacobian) |->
              BatchedRotations(MatMul(jacobian[i], actuations[i]))])

\* the residual of the product jacobian . actuations to its rotation
EnergyResidualOfProduct(jacobian, actuations, R) ==
    RMean([i \in 1 .. Len(jacobian) |->
              MatrixNorm(MatSub(MatMul(jacobian[i], actuations[i]), R[i]))])

\* what energy_loss returns once the rotations R are solved
EnergyResidual(jacobian, actuations, R) ==
    RMean([i \in 1 .. Len(jacobian) |->
              MatrixNorm(MatSub(jacobian[i], MatMul(R[i], actuations[i])))])

\* th.bmm raises unless both batches have the same number of matrices
energy_loss_raises(jacobian, actuations) == Len(jacobian) # Len(actuations)

\* the values energy_loss(jacobian, actuations) may return
energy_loss(jacobian, actuations) ==
    {EnergyResidual(jacobian, actuations, R) :
        R \in EnergyRotations(jacobian, actuations)}

-----------------------------------------------------------------------------
(* procrustes_loss(S1, S2): S1 and S2 are N x 3, sequences of integer points *)

\* the sum of column c over the points
RECURSIVE ColSum(_, _)
ColSum(S, c) == IF S = <<>> THEN 0 ELSE Head(S)[c] + ColSum(Tail(S), c)

\* mu = S.mean(axis=1, keepdims=True)
PointMean(S) == [c \in Idx |-> Rat(ColSum(S, c), Len(S))]

\* N times the centered points, N * (S - mu): integers
Centered(S) ==
    [i \in 1 .. Len(S) |-> [c \in Idx |-> Len(S) * S[i][c] - ColSum(S, c)]]

RECURSIVE SumOver(_, _, _)
SumOver(X, Y, ab) ==
    IF X = <<>> THEN 0
    ELSE Head(X)[ab[1]] * Head(Y)[ab[2]] + SumOver(Tail(X), Tail(Y), ab)

\* N^2 * th.sum(X1 ** 2)
ScaledVar(S1) ==
    LET X1 == Centered(S1)
    IN  SumOver(X1, X1, <<1, 1>>) + SumOver(X1, X1, <<2, 2>>) + SumOver(X1, X1, <<3, 3>>)

\* N^2 * X1.mm(X2.T); its singular vectors are those of K = X1.mm(X2.T)
ScaledK(S1, S2) ==
    LET X1 == Centered(S1)
        X2 == Centered(S2)
    IN  [a \in Idx |-> [b \in Idx |-> SumOver(X1, X2, <<a, b>>)]]

Trace(A) == A[1][1] + A[2][2] + A[3][3]

\* R applied to a vector of rationals
MatVec(R, v) ==
    [i \in Idx |-> RAdd(RAdd(RMul(RInt(R[i][1]), v[1]), RMul(RInt(R[i][2]), v[2])),
                        RMul(RInt(R[i][3]), v[3]))]

\* th.norm of a vector of rationals
VecNorm(v) == RSqrt(RAdd(RAdd(RMul(v[1], v[1]), RMul(v[2], v[2])), RMul(v[3], v[3])))

\* assert (S2.shape[1] == S1.shape[1])
procrustes_loss_raises(S1, S2) == Len(S1) # Len(S2)

\* the rotations procrustes_loss solves for
ProcrustesRotationsOf(S1, S2) == ProcrustesRotations(ScaledK(S1, S2))

\* what procrustes_loss returns once the rotation R is solved
ProcrustesResidual(S1, S2, R) ==
    LET mu1 == PointMean(S1)
        mu2 == PointMean(S2)
        scale == Rat(Trace(MatMul(R, ScaledK(S1, S2))), ScaledVar(S1))
        Rmu1 == MatVec(R, mu1)
        t == [c \in Idx |-> RSub(mu2[c], RMul(scale, Rmu1[c]))]
        hat(i) == LET RS == MatVec(R, [c \in Idx |-> RInt(S1[i][c])])
                  IN  [c \in Idx |-> RAdd(RMul(scale, RS[c]), t[c])]
        diff(i) == LET h == hat(i)
                   IN  [c \in Idx |-> RSub(h[c], RInt(S2[i][c]))]
    IN  RMean([i \in 1 .. Len(S1) |-> VecNorm(diff(i))])

\* the values procrustes_loss(S1, S2) may return
procrustes_loss(S1, S2) ==
    {ProcrustesResidual(S1, S2, R) : R \in ProcrustesRotationsOf(S1, S2)}

-----------------------------------------------------------------------------
(* compute_loss and process_batch of the three model classes *)

\* the per-term weights, at the constructors' defaults
SurfaceWeights == [w_deformation |-> <<1, 50>>, w_flame |-> RInt(1), w_boundary |-> RInt(1)]

INRWeights ==
    [w_deformation |-> <<1, 50>>, w_jaw |-> RInt(1), w_skull |-> RInt(2), w_surface |-> RInt(10)]

SimulatorWeights == [w_energy |-> <<1, 2>>, w_fixed |-> RInt(2)]

\* a mask comparison that selects every sample, whatever its tag
WhereEverySample(mask, tag) == [i \in 1 .. Len(mask) |-> TRUE]

\* mask == TAG, elementwise
Where(mask, tag) == [i \in 1 .. Len(mask) |-> mask[i] = tag]

\* where.sum()
CountTrue(where) == Cardinality({i \in 1 .. Len(where) : where[i]})

\* x[where] raises IndexError unless the mask is as long as x
BoolIndexRaises(x, where) == Len(x) # Len(where)

\* x[where]: the rows of x the mask selects, in order
RECURSIVE BoolIndexFrom(_, _, _)
BoolIndexFrom(x, where, i) ==
    IF i > Len(where) THEN <<>>
    ELSE (IF where[i] THEN <<x[i]>> ELSE <<>>) \o BoolIndexFrom(x, where, i + 1)

BoolIndex(x, where) == BoolIndexFrom(x, where, 1)

\* th.nn.functional.l1_loss on two N x 3 tensors of the same shape: the mean of
\* the absolute differences over all 3 N elements
l1_loss(a, b) ==
    RMean([k \in 1 .. 3 * Len(a) |->
              LET i == ((k - 1) \div 3) + 1
                  c == ((k - 1) % 3) + 1
              IN  RInt(Abs(a[i][c] - b[i][c]))])

\* a region guard that always evaluates the term
RegionPresentAlways(where) == TRUE

\* if where_region.sum() > 0
RegionPresent(where) == CountTrue(where) > 0

\* a jaw guard that lets two points through
JawSolvableFromTwo(where_jaw) == CountTrue(where_jaw) >= 2

\* if where_jaw.sum() > 2
JawSolvable(where_jaw) == CountTrue(where_jaw) > 2

\* an L1 term: zero unless the region is present, then the L1 loss over the
\* region's rows
L1Term(prediction, target, where) ==
    IF RegionPresent(where)
    THEN l1_loss(BoolIndex(prediction, where), BoolIndex(target, where))
    ELSE RInt(0)

\* evaluating the term raises: the region is present and a mask does not fit
L1TermRaises(prediction, target, where) ==
    /\ RegionPresent(where)
    /\ BoolIndexRaises(prediction, where) \/ BoolIndexRaises(target, where)

\* what a call that raised leaves behind
Raised == [raised |-> TRUE, loss |-> NaN, terms |-> <<>>, evaluated |-> {}]

Returned(value, terms, evaluated) ==
    [raised |-> FALSE, loss |-> value, terms |-> terms, evaluated |-> evaluated]

\* SurfaceINRModel.compute_loss: the outcomes it may have
SurfaceINRModel_compute_loss(prediction, target, mask, jacobian) ==
    LET w == SurfaceWeights
        where_flame == Where(mask, "FLAME")
        where_boundary == Where(mask, "BOUNDARY")
    IN  IF \/ L1TermRaises(prediction, target, where_flame)
           \/ L1TermRaises(prediction, target, where_boundary)
        THEN {Raised}
        ELSE LET flame_loss == RMul(L1Term(prediction, target, where_flame), w.w_flame)
                 boundary_loss ==
                     RMul(L1Term(prediction, target, where_boundary), w.w_boundary)
             IN  {Returned(RAdd(RAdd(flame_loss, boundary_loss), def_loss),
                           [FLAME |-> flame_loss, BOUNDARY |-> boundary_loss,
                            regularizer |-> def_loss],
                           {r \in {"FLAME", "BOUNDARY"} : RegionPresent(Where(mask, r))}) :
                     def_loss \in {RMul(d, w.w_deformation) : d \in deformation_loss(jacobian)}}

\* INRModel.compute_loss: the outcomes it may have
INRModel_compute_loss(prediction, target, mask, jacobian) ==
    LET w == INRWeights
        where_skull == Where(mask, "SKULL")
        where_jaw == Where(mask, "JAW")
        where_surface == Where(mask, "SURFACE")
        jaw_raises ==
            /\ JawSolvable(where_jaw)
            /\ BoolIndexRaises(prediction, where_jaw) \/ BoolIndexRaises(target, where_jaw)
    IN  IF \/ L1TermRaises(prediction, target, where_surface)
           \/ L1TermRaises(prediction, target, where_skull)
           \/ jaw_raises
        THEN {Raised}
        ELSE LET surface_loss ==
                     RMul(L1Term(prediction, target, where_surface), w.w_surface)
                 skull_loss == RMul(L1Term(prediction, target, where_skull), w.w_skull)
                 jaw_losses ==
                     IF JawSolvable(where_jaw)
                     THEN {RMul(j, w.w_jaw) :
                              j \in procrustes_loss(BoolIndex(prediction, where_jaw),
                                                    BoolIndex(target, where_jaw))}
                     ELSE {RMul(RInt(0), w.w_jaw)}
             IN  {Returned(RAdd(RAdd(RAdd(surface_loss, skull_loss), x[1]), x[2]),
                           [SURFACE |-> surface_loss, SKULL |-> skull_loss, JAW |-> x[1],
                            regularizer |-> x[2]],
                           {r \in {"SURFACE", "SKULL"} : RegionPresent(Where(mask, r))}
                               \cup (IF JawSolvable(where_jaw) THEN {"JAW"} ELSE {})) :
                     x \in jaw_losses \X
                           {RMul(d, w.w_deformation) : d \in deformation_loss(jacobian)}}

\* SimulatorModel.compute_loss: the outcomes it may have
SimulatorModel_compute_loss(prediction, target, mask, jacobian, actuations) ==
    LET w == SimulatorWeights
        where_fixed == Where(mask, "FIXED")
    IN  IF \/ L1TermRaises(prediction, target, where_fixed)
           \/ energy_loss_raises(jacobian, actuations)
        THEN {Raised}
        ELSE LET fixed_loss == RMul(L1Term(prediction, target, where_fixed), w.w_fixed)
             IN  {Returned(RAdd(fixed_loss, e_loss),
                           [FIXED |-> fixed_loss, regularizer |-> e_loss],
                           {r \in {"FIXED"} : RegionPresent(Where(mask, r))}) :
                     e_loss \in {RMul(e, w.w_energy) : e \in energy_loss(jacobian, actuations)}}

\* process_batch of the model class `mode`, on a batch tuple b and on what the
\* network gives for the batch's inputs: out.prediction = self(inputs) and
\* out.jacobian = self.construct_jacobian(inputs).  Unpacking the tuple raises
\* unless it has exactly the fields the class expects.
process_batch(mode, b, out) ==
    IF mode = "simulator"
    THEN IF Len(b) # 4 THEN {Raised}
         ELSE SimulatorModel_compute_loss(out.prediction, b[3], b[2],
                                          out.jacobian, b[4])
    ELSE IF Len(b) # 3 THEN {Raised}
         ELSE IF mode = "surface"
              THEN SurfaceINRModel_compute_loss(out.prediction, b[3], b[2],
                                                out.jacobian)
              ELSE INRModel_compute_loss(out.prediction, b[3], b[2], out.jacobian)

-----------------------------------------------------------------------------
(* process_batch called directly: batches drawn from bounded sets *)

\* the most samples in a batch
MaxBatchLen == 3

Modes == {"surface", "full-head", "simulator"}

\* the RegionMask enumeration of each mode
Tags(mode) ==
    IF mode = "surface" THEN {"FLAME", "BOUNDARY"}
    ELSE IF mode = "full-head" THEN {"SKULL", "JAW", "SURFACE"}
    ELSE {"FIXED", "FREE"}

\* the fields a batch of the mode's dataset has
Arity(mode) == IF mode = "simulator" THEN 4 ELSE 3

\* coordinates and targets lie on the first axis
Point(x) == <<x, 0, 0>>

\* the first coordinates the network predicts
PredictedCoords == {0, 1}

InputsOf(n) == [i \in 1 .. n |-> Point(i)]

TargetsOf(n) == [i \in 1 .. n |-> Point(i % 2)]

\* what the network may give for n inputs: any predicted points, and
\* Jacobians that are the identity throughout or a uniform scale at every
\* other sample
NetOutputs(n) ==
    {[prediction |-> [i \in 1 .. n |-> Point(x[i])], jacobian |-> j] :
        x \in [1 .. n -> PredictedCoords],
        j \in {[i \in 1 .. n |-> Eye],
               [i \in 1 .. n |-> IF i % 2 = 1 THEN Diag(<<2, 2, 2>>) ELSE Eye]}}

ActuationsOf(n) ==
    {[i \in 1 .. n |-> Eye], [i \in 1 .. n |-> IF i % 2 = 1 THEN Diag(<<2, 1, 1>>) ELSE Eye]}

\* <<inputs, mask, target>> lengths: equal, or inputs and target both present
\* and one apart, with the mask as long as either
Shapes ==
    {sh \in (0 .. MaxBatchLen) \X (0 .. MaxBatchLen) \X (0 .. MaxBatchLen) :
        \/ sh[1] = sh[2] /\ sh[2] = sh[3]
        \/ /\ sh[3] - sh[1] \in {-1, 1}
           /\ sh[1] >= 1 /\ sh[3] >= 1
           /\ sh[2] \in {sh[1], sh[3]}}

\* the batch tuple of `fields` fields
BatchTuple(fields, n, mask, t, actuations) ==
    IF fields = 4 THEN <<InputsOf(n), mask, TargetsOf(t), actuations>>
    ELSE <<InputsOf(n), mask, TargetsOf(t)>>

\* batches with the fields the mode expects, well-shaped or not; and
\* well-shaped batches with a field too many or too few
LossInputs ==
         {[mode |-> m[1][1],
           batch |-> BatchTuple(Arity(m[1][1]), m[1][2][1], m[2], m[1][2][3], m[3]),
           net |-> m[4]] :
             m \in UNION {{<<mode, sh>>} \X [1 .. sh[2] -> Tags(mode)]
                                         \X ActuationsOf(sh[1]) \X NetOutputs(sh[1]) :
                            mode \in Modes, sh \in Shapes}}
    \cup {[mode |-> m[1][1],
           batch |-> BatchTuple(7 - Arity(m[1][1]), m[1][2], m[2], m[1][2], m[3]),
           net |-> m[4]] :
             m \in UNION {{<<mode, n>>} \X [1 .. n -> Tags(mode)]
                                        \X {[i \in 1 .. n |-> Eye]}
                                        \X {[prediction |-> InputsOf(n),
                                             jacobian |-> [i \in 1 .. n |-> Eye]]} :
                            mode \in Modes, n \in 0 .. MaxBatchLen}}

LossIdle ==
    /\ loss_pc = "idle"
    /\ loss_in = <<>>
    /\ loss_out = Raised

LossInit ==
    /\ loss_pc = "input"
    /\ loss_in \in LossInputs
    /\ loss_out = Raised
    /\ RotIdle
    /\ TrainIdle

RunProcessBatch ==
    /\ loss_pc = "input"
    /\ loss_out' \in process_batch(loss_in.mode, loss_in.batch, loss_in.net)
    /\ loss_pc' = "done"
    /\ UNCHANGED loss_in
    /\ UNCHANGED <<rotVars, trainVars>>

LossNext == RunProcessBatch

SpecLoss == LossInit /\ [][LossNext]_vars

-----------------------------------------------------------------------------
(* The loss functions called directly: inputs drawn from bounded sets *)

\* the largest batch handed to deformation_loss and energy_loss
MaxRotBatch == 2

\* the point sets: an octahedron, a square in a plane, three points on a
\* line, two points, and three coincident points
Octahedron ==
    << <<1, 0, 0>>, <<-1, 0, 0>>, <<0, 1, 0>>, <<0, -1, 0>>, <<0, 0, 1>>, <<0, 0, -1>> >>

PointSets ==
    { Octahedron,
      << <<1, 0, 0>>, <<-1, 0, 0>>, <<0, 1, 0>>, <<0, -1, 0>> >>,
      << <<0, 0, 0>>, <<1, 0, 0>>, <<2, 0, 0>> >>,
      << <<1, 0, 0>>, <<-1, 0, 0>> >>,
      << <<1, 1, 0>>, <<1, 1, 0>>, <<1, 1, 0>> >> }

\* the points M . S[i] + t
Transformed(M, S, t) ==
    [i \in 1 .. Len(S) |->
        [c \in Idx |-> M[c][1] * S[i][1] + M[c][2] * S[i][2] + M[c][3] * S[i][3] + t[c]]]

Batches(S, n) == UNION {[1 .. k -> S] : k \in 0 .. n}

RotInputs ==
         {[fn |-> "deformation", jacobian |-> j] : j \in Batches(Jacobians, MaxRotBatch)}
    \cup {[fn |-> "energy", jacobian |-> j, actuations |-> a] :
             j \in Batches(Jacobians, 1), a \in Batches(Actuations, 1)}
    \cup {[fn |-> "energy", jacobian |-> <<p[1], q[1]>>, actuations |-> <<p[2], q[2]>>] :
             p \in {Diag(<<2, 2, 2>>), Diag(<<1, 2, -1>>)} \X Actuations,
             q \in Jacobians \X {Diag(<<2, 2, 2>>)}}
    \cup {[fn |-> "procrustes", S1 |-> S, S2 |-> Transformed(M, S, t)] :
             S \in PointSets, M \in Jacobians, t \in {<<0, 0, 0>>, <<1, 0, 2>>}}

RotInit ==
    /\ rot_pc = "input"
    /\ rot_in \in RotInputs
    /\ rot_R = <<>>
    /\ rot_out = NaN
    /\ LossIdle
    /\ TrainIdle

RunDeformationLoss ==
    /\ rot_pc = "input"
    /\ rot_in.fn = "deformation"
    /\ \E R \in DeformationRotations(rot_in.jacobian) :
          /\ rot_R' = R
          /\ rot_out' = DeformationResidual(rot_in.jacobian, R)
    /\ rot_pc' = "done"
    /\ UNCHANGED rot_in
    /\ UNCHANGED <<lossVars, trainVars>>

RunEnergyLoss ==
    /\ rot_pc = "input"
    /\ rot_in.fn = "energy"
    /\ IF energy_loss_raises(rot_in.jacobian, rot_in.actuations)
       THEN /\ rot_pc' = "raised"
            /\ UNCHANGED <<rot_R, rot_out>>
       ELSE /\ \E R \in EnergyRotations(rot_in.jacobian, rot_in.actuations) :
                  /\ rot_R' = R
                  /\ rot_out' = EnergyResidual(rot_in.jacobian, rot_in.actuations, R)
            /\ rot_pc' = "done"
    /\ UNCHANGED rot_in
    /\ UNCHANGED <<lossVars, trainVars>>

RunProcrustesLoss ==
    /\ rot_pc = "input"
    /\ rot_in.fn = "procrustes"
    /\ ~procrustes_loss_raises(rot_in.S1, rot_in.S2)
    /\ \E R \in ProcrustesRotationsOf(rot_in.S1, rot_in.S2) :
          /\ rot_R' = <<R>>
          /\ rot_out' = ProcrustesResidual(rot_in.S1, rot_in.S2, R)
    /\ rot_pc' = "done"
    /\ UNCHANGED rot_in
    /\ UNCHANGED <<lossVars, trainVars>>

RotNext == RunDeformationLoss \/ RunEnergyLoss \/ RunProcrustesLoss

SpecRot == RotInit /\ [][RotNext]_vars

-----------------------------------------------------------------------------
(* Properties of the loss functions *)

ProperRotations == {R \in SignedPerms : Det(R) = 1}

\* the proper rotations nearest to M in Frobenius norm
ClosestProperRotations(M) ==
    {R \in ProperRotations :
        \A Q \in ProperRotations : FrobSq(MatSub(M, R)) <= FrobSq(MatSub(M, Q))}

EnergyDone == rot_pc = "done" /\ rot_in.fn = "energy"

C9_RotationsAreProper ==
    rot_pc = "done" => \A i \in 1 .. Len(rot_R) : Det(rot_R[i]) = 1

\* deformation_loss has solved a batch holding a reflective Jacobian (det < 0)
\* and a singular one
C9_Witness ==
    /\ rot_pc = "done"
    /\ rot_in.fn = "deformation"
    /\ Len(rot_R) = 2
    /\ Det(rot_in.jacobian[1]) < 0
    /\ Det(rot_in.jacobian[2]) = 0

-----------------------------------------------------------------------------
(* Properties of process_batch and compute_loss *)

LossDone == loss_pc = "done"

\* the batch has the fields its mode expects and inputs, mask and target of
\* one length
WellFormed ==
    /\ Len(loss_in.batch) = Arity(loss_in.mode)
    /\ Len(loss_in.batch[1]) = Len(loss_in.batch[2])
    /\ Len(loss_in.batch[1]) = Len(loss_in.batch[3])

\* the number of samples of the batch tagged `tag`
RegionCount(tag) == CountTrue(Where(loss_in.batch[2], tag))

\* the regions that have a term in the mode's loss
TermRegions(mode) == Tags(mode) \ {"FREE"}

RECURSIVE SumTerms(_, _)
SumTerms(terms, keys) ==
    IF keys = {} THEN RInt(0)
    ELSE LET k == CHOOSE k \in keys : TRUE
         IN  RAdd(terms[k], SumTerms(terms, keys \ {k}))

\* C5: in every variant, a region with no sample in the batch contributes
\* exactly zero, its loss function is not evaluated, and the loss is still
\* returned, as the sum of the remaining terms
C5_EmptyRegionContributesZero ==
    (LossDone /\ WellFormed) =>
        \A r \in TermRegions(loss_in.mode) :
            RegionCount(r) = 0 =>
                /\ ~loss_out.raised
                /\ r \notin loss_out.evaluated
                /\ loss_out.terms[r] = RInt(0)
                /\ loss_out.loss = SumTerms(loss_out.terms, DOMAIN loss_out.terms \ {r})

\* a surface batch with FLAME samples and no BOUNDARY sample has returned a
\* positive loss
C5_Witness ==
    /\ LossDone
    /\ WellFormed
    /\ loss_in.mode = "surface"
    /\ RegionCount("BOUNDARY") = 0
    /\ RegionCount("FLAME") = 2
    /\ ~loss_out.raised
    /\ loss_out.terms["FLAME"][1] > 0
    /\ loss_out.loss[1] > 0

\* C6: in the full-head variant the procrustes term is evaluated if and only
\* if the batch has more than 2 JAW samples; with 0, 1 or 2 it contributes
\* zero, and nothing is raised
C6_JawTermNeedsThreePoints ==
    (LossDone /\ WellFormed /\ loss_in.mode = "full-head") =>
        /\ ~loss_out.raised
        /\ ("JAW" \in loss_out.evaluated) <=> (RegionCount("JAW") > 2)
        /\ (RegionCount("JAW") <= 2) => (loss_out.terms["JAW"] = RInt(0))

\* a full-head batch of exactly 2 JAW samples, predicted off their targets,
\* has returned with the jaw term skipped
C6_Witness ==
    /\ LossDone
    /\ WellFormed
    /\ loss_in.mode = "full-head"
    /\ RegionCount("JAW") = 2
    /\ Len(loss_in.batch[2]) = 2
    /\ loss_in.net.prediction # loss_in.batch[3]
    /\ ~loss_out.raised
    /\ "JAW" \notin loss_out.evaluated

\* C7: process_batch raises for every batch whose inputs and targets differ
\* in number, and for every batch with an actuations field given to the
\* surface or full-head variant
C7_MismatchAlwaysRaises ==
    (/\ LossDone
     /\ \/ Len(loss_in.batch[1]) # Len(loss_in.batch[3])
        \/ loss_in.mode # "simulator" /\ Len(loss_in.batch) = 4)
        => loss_out.raised

\* the positions of the batch whose mask is `tag`
RegionIndices(tag) ==
    {i \in 1 .. Len(loss_in.batch[2]) : loss_in.batch[2][i] = tag}

\* the rows of x at the positions S, in increasing order of position
RECURSIVE RowsAt(_, _)
RowsAt(x, S) ==
    IF S = {} THEN <<>>
    ELSE LET i == CHOOSE i \in S : \A j \in S : i <= j
         IN  <<x[i]>> \o RowsAt(x, S \ {i})

\* the sum over the positions S of the absolute differences between the
\* prediction and the target, coordinate by coordinate
RECURSIVE AbsDifferenceOver(_)
AbsDifferenceOver(S) ==
    IF S = {} THEN 0
    ELSE LET i == CHOOSE i \in S : TRUE
             p == loss_in.net.prediction[i]
             t == loss_in.batch[3][i]
         IN  Abs(p[1] - t[1]) + Abs(p[2] - t[2]) + Abs(p[3] - t[3])
                 + AbsDifferenceOver(S \ {i})

\* the mean absolute difference between prediction and target over the
\* samples of region `tag`; zero for a region without samples
RegionL1(tag) ==
    IF RegionIndices(tag) = {} THEN RInt(0)
    ELSE Rat(AbsDifferenceOver(RegionIndices(tag)), 3 * Cardinality(RegionIndices(tag)))

\* the alignment residuals of the JAW samples' predictions onto their
\* targets; zero with 2 samples or fewer
JawAlignment ==
    IF Cardinality(RegionIndices("JAW")) <= 2 THEN {RInt(0)}
    ELSE procrustes_loss(RowsAt(loss_in.net.prediction, RegionIndices("JAW")),
                         RowsAt(loss_in.batch[3], RegionIndices("JAW")))

\* the regularizer over the Jacobians of every sample of the batch
RegularizerOverBatch ==
    IF loss_in.mode = "simulator"
    THEN energy_loss(loss_in.net.jacobian, loss_in.batch[4])
    ELSE deformation_loss(loss_in.net.jacobian)

\* C11: the loss of each variant is the weighted sum of its terms, the term
\* of a region being computed from the samples of that region only (L1 for
\* FLAME, BOUNDARY, SURFACE, SKULL and FIXED, the alignment for JAW, no term
\* for FREE), and the regularizer from the Jacobians of all samples
C11_TermsRoutedByRegion ==
    (LossDone /\ WellFormed) =>
        LET o == loss_out
            m == loss_in.mode
        IN  /\ ~o.raised
            /\ o.loss = SumTerms(o.terms, DOMAIN o.terms)
            /\ m = "surface" =>
                  /\ DOMAIN o.terms = {"FLAME", "BOUNDARY", "regularizer"}
                  /\ o.terms["FLAME"] = RMul(RegionL1("FLAME"), SurfaceWeights.w_flame)
                  /\ o.terms["BOUNDARY"] =
                         RMul(RegionL1("BOUNDARY"), SurfaceWeights.w_boundary)
                  /\ \E d \in RegularizerOverBatch :
                         o.terms["regularizer"] = RMul(d, SurfaceWeights.w_deformation)
            /\ m = "full-head" =>
                  /\ DOMAIN o.terms = {"SURFACE", "SKULL", "JAW", "regularizer"}
                  /\ o.terms["SURFACE"] = RMul(RegionL1("SURFACE"), INRWeights.w_surface)
                  /\ o.terms["SKULL"] = RMul(RegionL1("SKULL"), INRWeights.w_skull)
                  /\ \E j \in JawAlignment : o.terms["JAW"] = RMul(j, INRWeights.w_jaw)
                  /\ \E d \in RegularizerOverBatch :
                         o.terms["regularizer"] = RMul(d, INRWeights.w_deformation)
            /\ m = "simulator" =>
                  /\ DOMAIN o.terms = {"FIXED", "regularizer"}
                  /\ o.terms["FIXED"] = RMul(RegionL1("FIXED"), SimulatorWeights.w_fixed)
                  /\ \E e \in RegularizerOverBatch :
                         o.terms["regularizer"] = RMul(e, SimulatorWeights.w_energy)

\* a surface batch of a FLAME sample predicted on its target and a BOUNDARY
\* sample predicted off it has returned: no FLAME term, a BOUNDARY term
C11_Witness ==
    /\ LossDone
    /\ WellFormed
    /\ loss_in.mode = "surface"
    /\ loss_in.batch[2] = <<"FLAME", "BOUNDARY">>
    /\ loss_in.net.prediction[1] = loss_in.batch[3][1]
    /\ loss_in.net.prediction[2] # loss_in.batch[3][2]
    /\ ~loss_out.raised
    /\ loss_out.terms["FLAME"] = RInt(0)
    /\ loss_out.terms["BOUNDARY"] = <<1, 3>>

-----------------------------------------------------------------------------
(* The dataset the trainer consumes: parallel arrays, sliceable, with        *)
(* prepare_for_epoch() and len()                                             *)

\* the most samples in a dataset
MaxLen == 5

\* the largest batch_size
MaxBatchSize == 3

\* sample i of a mode's dataset: its mask cycles through the mode's tags
TagOf(mode, i) ==
    IF mode = "surface" THEN (IF i % 2 = 1 THEN "FLAME" ELSE "BOUNDARY")
    ELSE IF mode = "full-head"
         THEN (IF i % 3 = 1 THEN "SKULL" ELSE IF i % 3 = 2 THEN "JAW" ELSE "SURFACE")
         ELSE (IF i % 2 = 1 THEN "FIXED" ELSE "FREE")

\* the dataset of samples 1 .. n, in order
DatasetOf(mode, n) ==
    [fields |-> Arity(mode),
     inputs |-> InputsOf(n),
     mask |-> [i \in 1 .. n |-> TagOf(mode, i)],
     target |-> TargetsOf(n),
     actuations |-> IF mode = "simulator"
                    THEN [i \in 1 .. n |-> IF i % 2 = 1 THEN Diag(<<2, 1, 1>>) ELSE Eye]
                    ELSE <<>>]

\* len(dataset)
dataset_len(d) == Len(d.inputs)

\* x[start:end] on a sequence, 0-based and truncated at its end as Python
\* slices are
Slice(x, start, end) ==
    SubSeq(x, start + 1, IF end < Len(x) THEN end ELSE Len(x))

\* dataset[start:end]: the batch tuple, with actuations if the dataset has them
dataset_getitem(d, start, end) ==
    IF d.fields = 4
    THEN <<Slice(d.inputs, start, end), Slice(d.mask, start, end),
           Slice(d.target, start, end), Slice(d.actuations, start, end)>>
    ELSE <<Slice(d.inputs, start, end), Slice(d.mask, start, end),
           Slice(d.target, start, end)>>

\* the orders prepare_for_epoch may leave n samples in: as they were,
\* reversed, or rotated by one
Reorderings(n) ==
    {[i \in 1 .. n |-> i], [i \in 1 .. n |-> n + 1 - i], [i \in 1 .. n |-> (i % n) + 1]}

Reordered(x, r) == [i \in 1 .. Len(x) |-> x[r[i]]]

\* dataset.prepare_for_epoch(): the datasets it may leave
prepare_for_epoch(d) ==
    {[fields |-> d.fields,
      inputs |-> Reordered(d.inputs, r),
      mask |-> Reordered(d.mask, r),
      target |-> Reordered(d.target, r),
      actuations |-> Reordered(d.actuations, r)] : r \in Reorderings(dataset_len(d))}

-----------------------------------------------------------------------------
(* BaseModel: the module's state, and train_epoch step by step *)

\* the parameter vectors (weights, biases, scale, translation) told apart
ParamValues == {"theta0", "theta1"}

\* self.train()
train_mode(m) == [m EXCEPT !.training = TRUE]

\* predict: self.eval(), then a forward pass under th.no_grad()
predict(m) == [m EXCEPT !.training = FALSE]

\* optimizer.zero_grad()
zero_grad(m) == [m EXCEPT !.grads = "zero"]

\* a backward pass that applies the gradient to the parameters as it goes
backward_updating(m) ==
    [m EXCEPT !.grads = "set",
              !.params = IF m.params = "theta0" THEN "theta1" ELSE "theta0"]

\* loss.backward(): the gradients of the loss are accumulated
backward(m) == [m EXCEPT !.grads = "set"]

\* optimizer.step(): the modules it may leave.  The parameters move only
\* along gradients that are set.
optimizer_step(m) ==
    IF m.grads = "set" THEN {[m EXCEPT !.params = p] : p \in ParamValues} ELSE {m}

\* a batch count rounded up, so that no sample is left out
NumBatchesCeil(length, size) ==
    IF length = 0 THEN 1 ELSE (length + size - 1) \div size

\* max(len(dataset) // batch_size, 1)
NumBatches(length, size) ==
    IF length \div size > 1 THEN length \div size ELSE 1

\* a loop body that backpropagates before it zeroes the gradients
NextStepZeroLate(at) ==
    IF at = "process" THEN "backward"
    ELSE IF at = "backward" THEN "zero_grad"
    ELSE IF at = "zero_grad" THEN "step"
    ELSE "accumulate"

\* the statement after `at` in the loop body: process_batch, zero_grad,
\* backward, step, then the two accumulations
NextStep(at) ==
    IF at = "process" THEN "zero_grad"
    ELSE IF at = "zero_grad" THEN "backward"
    ELSE IF at = "backward" THEN "step"
    ELSE "accumulate"

\* what the network gives in training: the origin for every input with
\* identity Jacobians, or the unit point with every other Jacobian a scale
TrainingOutputs(n) ==
    {o \in NetOutputs(n) :
        \A i \in 1 .. n : o.prediction[i] = Point(IF o.jacobian[1] = Eye THEN 0 ELSE 1)}

Init ==
    /\ pc = "idle"
    /\ variant \in Modes
    /\ dataset \in {DatasetOf(variant, n) : n \in 0 .. MaxLen}
    /\ self = [params |-> "theta0", grads |-> "none", training |-> TRUE]
    /\ batch_size = 1
    /\ total_loss = RInt(0)
    /\ total_samples = 0
    /\ num_batches = 0
    /\ batch_inx = 0
    /\ batch = <<>>
    /\ loss = RInt(0)
    /\ result = RInt(0)
    /\ prepared = 0
    /\ trace = <<>>
    /\ log = <<>>
    /\ samples_seen = 0
    /\ weighted_loss = RInt(0)
    /\ LossIdle
    /\ RotIdle

\* the call, and lines 166-169: self.train(), the two accumulators,
\* num_batches.  The frame is new: no batch, no loss, nothing returned yet.
TrainEpochBegin ==
    /\ pc = "idle"
    /\ \E size \in 1 .. MaxBatchSize :
          /\ batch_size' = size
          /\ num_batches' = NumBatches(dataset_len(dataset), size)
    /\ self' = train_mode(self)
    /\ total_loss' = RInt(0)
    /\ total_samples' = 0
    /\ batch_inx' = -1
    /\ batch' = <<>>
    /\ loss' = RInt(0)
    /\ result' = RInt(0)
    /\ prepared' = 0
    /\ trace' = <<>>
    /\ log' = <<>>
    /\ samples_seen' = 0
    /\ weighted_loss' = RInt(0)
    /\ pc' = "prepare"
    /\ UNCHANGED <<variant, dataset, rotVars, lossVars>>

\* line 170
PrepareForEpoch ==
    /\ pc = "prepare"
    /\ dataset' \in prepare_for_epoch(dataset)
    /\ prepared' = prepared + 1
    /\ pc' = "for"
    /\ UNCHANGED <<variant, self, batch_size, total_loss, total_samples, num_batches,
                   batch_inx, batch, loss, result, trace, log, samples_seen,
                   weighted_loss, rotVars, lossVars>>

\* line 171: the next batch_inx of range(num_batches), or the end of the loop
ForBatch ==
    /\ pc = "for"
    /\ IF batch_inx + 1 < num_batches
       THEN batch_inx' = batch_inx + 1 /\ pc' = "slice"
       ELSE batch_inx' = batch_inx /\ pc' = "return"
    /\ UNCHANGED <<variant, dataset, self, batch_size, total_loss, total_samples,
                   num_batches, batch, loss, result, prepared, trace, log,
                   samples_seen, weighted_loss, rotVars, lossVars>>

\* a slice that starts one sample early for every batch before it, so that
\* consecutive batches share a sample
SliceBatchOverlapping ==
    /\ pc = "slice"
    /\ LET start_inx == batch_inx * batch_size - batch_inx
           end_inx == start_inx + batch_size
       IN  /\ batch' = dataset_getitem(dataset, start_inx, end_inx)
           /\ log' = Append(log, [start_inx |-> start_inx, end_inx |-> end_inx,
                                  batch |-> batch'])
    /\ pc' = "process"
    /\ UNCHANGED <<variant, dataset, self, batch_size, total_loss, total_samples,
                   num_batches, batch_inx, loss, result, prepared, trace,
                   samples_seen, weighted_loss, rotVars, lossVars>>

\* lines 172-174
SliceBatch ==
    /\ pc = "slice"
    /\ LET start_inx == batch_inx * batch_size
           end_inx == (batch_inx + 1) * batch_size
       IN  /\ batch' = dataset_getitem(dataset, start_inx, end_inx)
           /\ log' = Append(log, [start_inx |-> start_inx, end_inx |-> end_inx,
                                  batch |-> batch'])
    /\ pc' = "process"
    /\ UNCHANGED <<variant, dataset, self, batch_size, total_loss, total_samples,
                   num_batches, batch_inx, loss, result, prepared, trace,
                   samples_seen, weighted_loss, rotVars, lossVars>>

\* line 175: forward, Jacobian and loss
ProcessBatch ==
    /\ pc = "process"
    /\ \E out \in TrainingOutputs(Len(batch[1])) :
          \E r \in process_batch(variant, batch, out) :
              IF r.raised
              THEN pc' = "raised" /\ UNCHANGED loss
              ELSE loss' = r.loss /\ pc' = NextStep("process")
    /\ trace' = Append(trace, <<"process", batch_inx>>)
    /\ UNCHANGED <<variant, dataset, self, batch_size, total_loss, total_samples,
                   num_batches, batch_inx, batch, result, prepared, log,
                   samples_seen, weighted_loss, rotVars, lossVars>>

\* line 177
ZeroGrad ==
    /\ pc = "zero_grad"
    /\ self' = zero_grad(self)
    /\ trace' = Append(trace, <<"zero_grad", batch_inx>>)
    /\ pc' = NextStep("zero_grad")
    /\ UNCHANGED <<variant, dataset, batch_size, total_loss, total_samples, num_batches,
                   batch_inx, batch, loss, result, prepared, log, samples_seen,
                   weighted_loss, rotVars, lossVars>>

\* line 178
Backward ==
    /\ pc = "backward"
    /\ self' = backward(self)
    /\ trace' = Append(trace, <<"backward", batch_inx>>)
    /\ pc' = NextStep("backward")
    /\ UNCHANGED <<variant, dataset, batch_size, total_loss, total_samples, num_batches,
                   batch_inx, batch, loss, result, prepared, log, samples_seen,
                   weighted_loss, rotVars, lossVars>>

\* line 179
OptimizerStep ==
    /\ pc = "step"
    /\ self' \in optimizer_step(self)
    /\ trace' = Append(trace, <<"step", batch_inx>>)
    /\ pc' = NextStep("step")
    /\ UNCHANGED <<variant, dataset, batch_size, total_loss, total_samples, num_batches,
                   batch_inx, batch, loss, result, prepared, log, samples_seen,
                   weighted_loss, rotVars, lossVars>>

\* lines 181-182; the history counts the samples, the rows of the batch's inputs
Accumulate ==
    /\ pc = "accumulate"
    /\ total_samples' = total_samples + Len(batch)
    /\ total_loss' = RAdd(total_loss, RMul(loss, RInt(Len(batch))))
    /\ samples_seen' = samples_seen + Len(batch[1])
    /\ weighted_loss' = RAdd(weighted_loss, RMul(loss, RInt(Len(batch[1]))))
    /\ pc' = "for"
    /\ UNCHANGED <<variant, dataset, self, batch_size, num_batches, batch_inx, batch,
                   loss, result, prepared, trace, log, rotVars, lossVars>>

\* line 183
ReturnMeanLoss ==
    /\ pc = "return"
    /\ result' = RDiv(total_loss, RInt(total_samples))
    /\ pc' = "idle"
    /\ UNCHANGED <<variant, dataset, self, batch_size, total_loss, total_samples,
                   num_batches, batch_inx, batch, loss, prepared, trace, log,
                   samples_seen, weighted_loss, rotVars, lossVars>>

\* predict, between epochs
Predict ==
    /\ pc = "idle"
    /\ self' = predict(self)
    /\ UNCHANGED <<pc, variant, dataset, batch_size, total_loss, total_samples,
                   num_batches, batch_inx, batch, loss, result, prepared, trace, log,
                   samples_seen, weighted_loss, rotVars, lossVars>>

Next ==
    \/ TrainEpochBegin
    \/ PrepareForEpoch
    \/ ForBatch
    \/ SliceBatch
    \/ ProcessBatch
    \/ ZeroGrad
    \/ Backward
    \/ OptimizerStep
    \/ Accumulate
    \/ ReturnMeanLoss
    \/ Predict

Spec == Init /\ [][Next]_vars

-----------------------------------------------------------------------------
(* Properties of train_epoch *)

\* train_epoch has run its loop to the end
EpochDone == pc = "return" \/ (pc = "idle" /\ prepared = 1)

\* C1: each batch's loss is accumulated times the number of samples in the
\* batch, and the total is divided by the number of samples processed
C1_LossWeightedBySamples ==
    /\ total_samples = samples_seen
    /\ total_loss = weighted_loss
    /\ (pc = "idle" /\ prepared = 1) => result = RDiv(weighted_loss, RInt(samples_seen))

\* the samples [lo, hi) of array x, 0-based, as far as x goes
Range(x, lo, hi) ==
    [i \in 1 .. ((IF hi < Len(x) THEN hi ELSE Len(x)) - lo) |-> x[lo + i]]

StepOrder == <<"process", "zero_grad", "backward", "step">>

\* C3: the steps run in the order process_batch, zero gradients,
\* backpropagate, optimizer step; one optimizer step per batch; all four steps
\* of batch k before any step of batch k + 1
C3_StepsInOrderBatchByBatch ==
    /\ \A i \in 1 .. Len(trace) :
          trace[i] = <<StepOrder[((i - 1) % 4) + 1], (i - 1) \div 4>>
    /\ pc = "for" => Len(trace) = 4 * (batch_inx + 1)
    /\ EpochDone => Len(trace) = 4 * num_batches

\* an epoch of 2 batches has ended with its 8 steps taken
C3_Witness ==
    /\ EpochDone
    /\ num_batches = 2
    /\ Len(trace) = 8
    /\ trace[8] = <<"step", 1>>

\* C4: within a call of train_epoch, prepare_for_epoch has been called by
\* the time the batch count is computed (num_batches is set from the call's
\* first step on); it is called exactly once per epoch, and before any batch
\* is sliced
C4_PrepareBeforeBatchCount ==
    /\ prepared <= 1
    /\ pc # "idle" => prepared = 1
    /\ Len(log) > 0 => prepared = 1

\* C10: the parameters change only in the optimizer step of train_epoch
C10_ParamsChangeOnlyInStep ==
    [][self.params # self'.params => (pc = "step" /\ pc' = "accumulate")]_vars

\* an optimizer step has moved the parameters
C10_Witness ==
    /\ pc = "accumulate"
    /\ self.params = "theta1"
    /\ self.grads = "set"

\* the samples of the batch sliced in iteration n, by their input rows
BatchSamples(n) == {log[n].batch[1][j] : j \in 1 .. Len(log[n].batch[1])}

\* the dataset positions (0-based) the slice of iteration n covers
SliceIndices(n) ==
    {i \in 0 .. dataset_len(dataset) - 1 : log[n].start_inx <= i /\ i < log[n].end_inx}

=============================================================================
